---------------------------- MODULE Spec2Model ----------------------------
(***************************************************************************)
(* Model of kubevirt's libvirt connection wrapper (package libvirt,        *)
(* type LibvirtConnection): the lock-protected alive flag, the lazy        *)
(* reconnect with callback replay, the error classifier, the watchdog      *)
(* goroutine and Close.                                                    *)
(*                                                                         *)
(* Goroutines are the callers (1, 2) and the watchdog (0).  One            *)
(* step of the model is one critical section of reconnectLock, or one      *)
(* access made without the lock.  The libvirt library is the environment:  *)
(* every call into it chooses its outcome and the error it leaves in       *)
(* GetLastError() nondeterministically.                                    *)
(***************************************************************************)
EXTENDS Naturals, Sequences, FiniteSets

VARIABLES
    Connect,        \* l.Connect: NoSession (nil) or the id of a dialed session
    alive,          \* l.alive
    callbacks,      \* l.callbacks, a sequence of callbacks
    reconnectLock,  \* holder of l.reconnectLock, or NoThread
    stop,           \* l.stop: "nil", "open" or "closed"
    lastError,      \* what libvirt_go.GetLastError() reports
    th,             \* per goroutine: pc, op, arg, cbs, tmp, res, ret, stack
    dialed,         \* history: number of sessions dialed so far
    dials,          \* history: dial attempts since alive last became false
    invoked,        \* history: invocations of each callback in the last replay
    batch,          \* history: the registry contents taken by the last drain
    appended,       \* history: callbacks appended and not notified since
    subscribed,     \* environment: callbacks whose watcher holds a subscription
    ops,            \* history: operations started by callers
    ticks,          \* history: watchdog ticks taken
    closeSignals,   \* history: number of times close(l.stop) succeeded
    dialer          \* the call of NewConnection: pc, fails, now, attempts,
                    \* virConn, dialErrs, pollErr, ret

vars == <<Connect, alive, callbacks, reconnectLock, stop, lastError, th,
          dialed, dials, invoked, batch, appended, subscribed,
          ops, ticks, closeSignals, dialer>>

----------------------------------------------------------------------------
(* Bounds of the model *)

\* Operations started by the callers plus ticks taken by the watchdog
MaxCalls == 3
\* Length of the list the library returns to ListAllGuests
MaxDomains == 2
\* Dial attempts that fail before the daemon accepts a connection
MaxFails == 3

----------------------------------------------------------------------------
(* Values *)

\* `const ConnectionTimeout = 15 * time.Second`, in seconds
ConnectionTimeout == 15
\* `const ConnectionInterval = 10 * time.Second`, in seconds
ConnectionInterval == 10

Watchdog == 0
Callers == {1, 2}
Threads == Callers \cup {Watchdog}
NoThread == 99

NoSession == 0
FirstSession == 1

Callbacks == {"A", "B"}
NoCallback == "-"

\* libvirt error codes: ERR_OK, the codes of the switch in checkConnectionLost
\* and one more (ERR_NO_DOMAIN) that the switch does not list.  The library may
\* leave any of them in GetLastError().
Codes == {"ERR_OK", "ERR_INTERNAL_ERROR", "ERR_INVALID_CONN", "ERR_AUTH_CANCELLED",
          "ERR_NO_MEMORY", "ERR_AUTH_FAILED", "ERR_SYSTEM_ERROR", "ERR_RPC",
          "ERR_NO_DOMAIN"}

\* One code of each kind the code tells apart (no error, a code of the switch,
\* another code): what the library reports where goroutines run concurrently.
SomeCodes == {"ERR_OK", "ERR_RPC", "ERR_NO_DOMAIN"}

\* The wrapped operations.  ListSecrets stands for the operations that hand the
\* library's result through named results (ListSecrets, LookupSecretByUUIDString,
\* LookupSecretByUsage, SecretDefineXML, LookupGuestByName, DefineGuestSpec) and
\* for NewStream, which puts the library's stream into a VirStream.
WrappedOps == {"ListSecrets", "ListAllGuests", "RegisterGuestEventLifecycle"}
NoOp == "-"

\* Results: of the library call (res) and of the wrapper (ret).
NoResult == [kind |-> "none", val |-> <<>>]
DialError == [kind |-> "dialerr", val |-> <<>>]
CallError == [kind |-> "err", val |-> <<>>]
Panic == [kind |-> "panic", val |-> <<>>]
Ok(v) == [kind |-> "ok", val |-> v]

Range(s) == {s[i] : i \in 1..Len(s)}

----------------------------------------------------------------------------
(* Pure parts of the code *)

\* errors.IsOk(err)
IsOk(code) == code = "ERR_OK"

\* A faulty variant of IsConnectionLostCode: ERR_RPC is missing from the list.
IsConnectionLostCode_NoRpc(code) ==
    code \in {"ERR_INTERNAL_ERROR", "ERR_INVALID_CONN", "ERR_AUTH_CANCELLED",
              "ERR_NO_MEMORY", "ERR_AUTH_FAILED", "ERR_SYSTEM_ERROR"}

\* the case list of the switch in checkConnectionLost
IsConnectionLostCode(code) ==
    code \in {"ERR_INTERNAL_ERROR", "ERR_INVALID_CONN", "ERR_AUTH_CANCELLED",
              "ERR_NO_MEMORY", "ERR_AUTH_FAILED", "ERR_SYSTEM_ERROR", "ERR_RPC"}

\* A faulty variant of AliveAfterCheck: with no error recorded the connection
\* is taken to be alive again.
AliveAfterCheck_RevivesOnOk(a, code) ==
    IF IsOk(code) THEN TRUE
    ELSE IF IsConnectionLostCode(code) THEN FALSE ELSE a

\* checkConnectionLost's body under the lock: the new value of l.alive
AliveAfterCheck(a, code) ==
    IF IsOk(code) THEN a
    ELSE IF IsConnectionLostCode(code) THEN FALSE ELSE a

\* A faulty variant of NeedsReconnect: the dial is made whatever l.alive is.
NeedsReconnect_Always(a) == TRUE

\* `if !l.alive` in reconnectIfNecessary
NeedsReconnect(a) == ~a

\* A faulty variant of AliveAfterDial: `l.alive = true` is missing.
AliveAfterDial_NotSet(ok, a) == a

\* `if err != nil { return }; l.alive = true`: l.alive after the dial
AliveAfterDial(ok, a) == IF ok THEN TRUE ELSE a

\* `l.Connect, err = newConnection(...)`: the session reference after a dial
ConnectAfterDial(ok, new) == IF ok THEN new ELSE NoSession

\* ListAllGuests / ListAllSecrets: `for i, d := range virDoms { doms[i] = &d }`
\* stores the address of the one loop variable d in every element, so after
\* the loop every element refers to the last domain.
AddressOfLoopVariable(virDoms) == [i \in 1..Len(virDoms) |-> virDoms[Len(virDoms)]]

\* What a wrapped operation returns for the library's result r
WrapResult(o, r) ==
    IF r.kind # "ok" THEN r
    ELSE IF o = "ListAllGuests" THEN Ok(AddressOfLoopVariable(r.val))
    ELSE r

\* What the library can answer to the call made by operation o
Outcomes(o) ==
    IF o = "ListAllGuests"
    THEN {CallError, Ok([i \in 1..MaxDomains |-> i])}
    ELSE {CallError, Ok(<<1>>)}

\* A faulty variant of Condition: a failed dial is returned to the poll as an
\* error, which ends the poll at once.
Condition_ReturnsDialError(dialOk) ==
    [done |-> dialOk, err |-> IF dialOk THEN "nil" ELSE "dial error"]

\* The condition function NewConnection hands to PollImmediate:
\* `virConn, err = newConnection(...); if err != nil { return false, nil };
\* return true, nil`.  The dial's error is never returned to the poll.
Condition(dialOk) == [done |-> dialOk, err |-> "nil"]

\* utilwait.PollImmediate(interval, timeout, condition), after a call of the
\* condition at time now returned c: an error of the condition ends the poll
\* with that error, done ends it with nil; otherwise the poll waits the
\* interval and calls the condition again if the timeout has not elapsed by
\* then, and ends with its timeout error if it has.
PollImmediate(c, now, interval, timeout) ==
    IF c.err # "nil" THEN [pc |-> "polled", pollErr |-> c.err, now |-> now]
    ELSE IF c.done THEN [pc |-> "polled", pollErr |-> "nil", now |-> now]
    ELSE IF now + interval < timeout
         THEN [pc |-> "poll", pollErr |-> "nil", now |-> now + interval]
    ELSE [pc |-> "polled", pollErr |-> "timed out waiting for the condition",
          now |-> timeout]

\* `fmt.Errorf("cannot connect to libvirt daemon: %v", err)`
ConnectError(err) == <<"cannot connect to libvirt daemon", err>>

----------------------------------------------------------------------------
(* Goroutine records *)

IdleThread == [pc |-> "idle", op |-> NoOp, arg |-> NoCallback, cbs |-> <<>>,
               tmp |-> <<>>, res |-> NoResult, ret |-> NoResult, stack |-> <<>>]

\* The call of NewConnection that made the handle: its first dial succeeded.
Connected ==
    [pc |-> "returned", fails |-> 0, now |-> 0, attempts |-> 1,
     virConn |-> FirstSession, dialErrs |-> <<>>, pollErr |-> "nil",
     ret |-> [handle |-> TRUE, err |-> <<>>]]

\* NewConnection's LibvirtConnection literal: alive true, empty callbacks, a
\* fresh mutex; the stop field is not set, so it is the nil channel.
Init ==
    /\ Connect = FirstSession
    /\ alive = TRUE
    /\ callbacks = <<>>
    /\ reconnectLock = NoThread
    /\ stop = "nil"
    /\ lastError = "ERR_OK"
    /\ th = [t \in Threads |-> IF t = Watchdog THEN [IdleThread EXCEPT !.pc = "off"]
                                               ELSE IdleThread]
    /\ dialed = 1
    /\ dials = 0
    /\ invoked = [c \in Callbacks |-> 0]
    /\ batch = <<>>
    /\ appended = {}
    /\ subscribed = {}
    /\ ops = 0
    /\ ticks = 0
    /\ closeSignals = 0
    /\ dialer = Connected

\* A Go panic that nobody recovers ends the process.
Running == \A t \in Threads : th[t].pc # "panicked"

\* The goroutine record after its operation returned r: back to the caller, or
\* back into the callback that made the call.
Returned(rec, r) ==
    IF rec.stack = <<>>
    THEN [IdleThread EXCEPT !.ret = r]
    ELSE LET f == Head(rec.stack)
         IN [pc |-> "rin_replay", op |-> f.op, arg |-> f.arg, cbs |-> f.cbs,
             tmp |-> <<>>, res |-> f.res, ret |-> NoResult,
             stack |-> Tail(rec.stack)]

\* A faulty variant of AfterReconnect: the operation goes on although
\* reconnectIfNecessary returned an error.
AfterReconnect_IgnoresError(rec, failed) ==
    IF rec.op = "MonitorConnection" THEN [rec EXCEPT !.pc = "isalive"]
    ELSE IF rec.op = "RegisterGuestEventLifecycle"
         THEN [rec EXCEPT !.pc = "append_read"]
    ELSE [rec EXCEPT !.pc = "call"]

\* The goroutine record after reconnectIfNecessary returned (failed: with err):
\* `if err = l.reconnectIfNecessary(); err != nil { return }` in the wrapped
\* operations, `l.reconnectIfNecessary()` with the error dropped in the watchdog.
AfterReconnect(rec, failed) ==
    IF rec.op = "MonitorConnection" THEN [rec EXCEPT !.pc = "isalive"]
    ELSE IF failed THEN Returned(rec, DialError)
    ELSE IF rec.op = "RegisterGuestEventLifecycle"
         THEN [rec EXCEPT !.pc = "append_read"]
    ELSE [rec EXCEPT !.pc = "call"]

\* The watcher of a callback whose registration returned an error holds no
\* subscription (it may register again).
SubscribedAfter(rec, r) ==
    IF rec.op = "RegisterGuestEventLifecycle" /\ r.kind # "ok"
    THEN subscribed \ {rec.arg} ELSE subscribed

----------------------------------------------------------------------------
(* Operations of the callers *)

\* A caller calls one of the wrapped operations; the operation starts with
\* l.reconnectIfNecessary().
StartOp(t) ==
    /\ Running
    /\ UNCHANGED dialer
    /\ th[t].pc = "idle"
    /\ ops + ticks < MaxCalls
    /\ \E o \in WrappedOps, cb \in Callbacks \cup {NoCallback} :
        /\ IF o = "RegisterGuestEventLifecycle"
           THEN cb \in Callbacks \ subscribed ELSE cb = NoCallback
        /\ th' = [th EXCEPT ![t] = [IdleThread EXCEPT !.pc = "rin_enter",
                                                     !.op = o, !.arg = cb]]
        /\ subscribed' = IF cb = NoCallback THEN subscribed ELSE subscribed \cup {cb}
    /\ ops' = ops + 1
    /\ UNCHANGED <<Connect, alive, callbacks, reconnectLock, stop, lastError,
                   dialed, dials, invoked, batch, appended, ticks, closeSignals>>

\* reconnectIfNecessary up to the replay loop: Lock, `if !l.alive`, the single
\* dial, `l.alive = true`, the drain of l.callbacks into cbs.  With alive true,
\* and when the dial fails, the function returns and the deferred Unlock runs:
\* one critical section.  After a successful dial the lock stays held for the
\* loop over cbs (the Unlock is deferred to the return).
ReconnectIfNecessary(t, C) ==
    /\ Running
    /\ UNCHANGED dialer
    /\ th[t].pc = "rin_enter"
    /\ reconnectLock = NoThread
    /\ IF ~NeedsReconnect(alive)
       THEN /\ th' = [th EXCEPT ![t] = AfterReconnect(th[t], FALSE)]
            /\ UNCHANGED <<Connect, alive, callbacks, reconnectLock, lastError,
                           dialed, dials, invoked, batch, subscribed>>
       ELSE \E ok \in BOOLEAN, code \in C :
            /\ lastError' = code
            /\ Connect' = ConnectAfterDial(ok, dialed + 1)
            /\ dials' = dials + 1
            /\ IF ok
               THEN /\ dialed' = dialed + 1
                    /\ alive' = AliveAfterDial(ok, alive)
                    /\ callbacks' = <<>>
                    /\ batch' = callbacks
                    /\ invoked' = [c \in Callbacks |-> 0]
                    /\ IF callbacks = <<>>
                       THEN /\ th' = [th EXCEPT ![t] = AfterReconnect(th[t], FALSE)]
                            /\ UNCHANGED reconnectLock
                       ELSE /\ th' = [th EXCEPT ![t].pc = "rin_replay",
                                                ![t].cbs = callbacks]
                            /\ reconnectLock' = t
                    /\ UNCHANGED subscribed
               ELSE /\ th' = [th EXCEPT ![t] = AfterReconnect(th[t], TRUE)]
                    /\ subscribed' = SubscribedAfter(th[t], DialError)
                    /\ alive' = AliveAfterDial(ok, alive)
                    /\ UNCHANGED <<dialed, callbacks, batch, invoked,
                                   reconnectLock>>
    /\ UNCHANGED <<stop, appended, ops, ticks, closeSignals>>

\* reconnectIfNecessary, lock held: `cb(l.Connect, nil, nil)` for the next
\* callback of cbs; the callback returns (its watcher re-registers later, from
\* a goroutine of its own).  After the last callback the function returns and
\* the deferred Unlock runs.
RinInvoke(t) ==
    /\ Running
    /\ UNCHANGED dialer
    /\ th[t].pc = "rin_replay"
    /\ th[t].cbs # <<>>
    /\ LET cb == Head(th[t].cbs)
           rest == Tail(th[t].cbs)
       IN /\ invoked' = [invoked EXCEPT ![cb] = @ + 1]
          /\ appended' = appended \ {cb}
          /\ subscribed' = subscribed \ {cb}
          /\ IF rest = <<>>
             THEN /\ reconnectLock' = NoThread
                  /\ th' = [th EXCEPT ![t] = AfterReconnect([th[t] EXCEPT !.cbs = <<>>],
                                                           FALSE)]
             ELSE /\ th' = [th EXCEPT ![t].cbs = rest]
                  /\ UNCHANGED reconnectLock
    /\ UNCHANGED <<Connect, alive, callbacks, stop, lastError,
                   dialed, dials, batch, ops, ticks, closeSignals>>

\* reconnectIfNecessary, lock held: `cb(l.Connect, nil, nil)` for a callback
\* that re-registers itself before it returns: it calls
\* RegisterGuestEventLifecycle on the goroutine that runs the replay.
RinInvokeSync(t) ==
    /\ Running
    /\ UNCHANGED dialer
    /\ th[t].pc = "rin_replay"
    /\ th[t].cbs # <<>>
    /\ LET cb == Head(th[t].cbs)
           frame == [op |-> th[t].op, arg |-> th[t].arg,
                     cbs |-> Tail(th[t].cbs), res |-> th[t].res]
       IN /\ invoked' = [invoked EXCEPT ![cb] = @ + 1]
          /\ appended' = appended \ {cb}
          /\ th' = [th EXCEPT ![t] = [IdleThread EXCEPT
                        !.pc = "rin_enter",
                        !.op = "RegisterGuestEventLifecycle",
                        !.arg = cb,
                        !.stack = <<frame>> \o th[t].stack]]
    /\ UNCHANGED <<Connect, alive, callbacks, reconnectLock, stop, lastError,
                   dialed, dials, batch, subscribed, ops, ticks, closeSignals>>

\* RegisterGuestEventLifecycle: `l.callbacks = append(l.callbacks, lvcb)`, made
\* without the lock: first the read of l.callbacks ...
AppendRead(t) ==
    /\ Running
    /\ UNCHANGED dialer
    /\ th[t].pc = "append_read"
    /\ th' = [th EXCEPT ![t].pc = "append_write", ![t].tmp = callbacks]
    /\ UNCHANGED <<Connect, alive, callbacks, reconnectLock, stop, lastError,
                   dialed, dials, invoked, batch, appended, subscribed,
                   ops, ticks, closeSignals>>

\* ... then the write of the extended slice.
AppendWrite(t) ==
    /\ Running
    /\ UNCHANGED dialer
    /\ th[t].pc = "append_write"
    /\ callbacks' = Append(th[t].tmp, th[t].arg)
    /\ appended' = appended \cup {th[t].arg}
    /\ th' = [th EXCEPT ![t].pc = "call", ![t].tmp = <<>>]
    /\ UNCHANGED <<Connect, alive, reconnectLock, stop, lastError,
                   dialed, dials, invoked, batch, subscribed, ops, ticks,
                   closeSignals>>

\* The library call of a wrapped operation, l.Connect.X(...), made without the
\* lock.  A nil l.Connect makes the call panic; the deferred
\* checkConnectionLost still runs.
Call(t, C) ==
    /\ Running
    /\ UNCHANGED dialer
    /\ th[t].pc = "call"
    /\ IF Connect = NoSession
       THEN /\ th' = [th EXCEPT ![t].pc = "ccl", ![t].res = Panic]
            /\ UNCHANGED lastError
       ELSE \E r \in Outcomes(th[t].op), code \in C :
            /\ th' = [th EXCEPT ![t].pc = "ccl", ![t].res = r]
            /\ lastError' = code
    /\ UNCHANGED <<Connect, alive, callbacks, reconnectLock, stop,
                   dialed, dials, invoked, batch, appended, subscribed,
                   ops, ticks, closeSignals>>

\* checkConnectionLost (one critical section), then what follows it: the
\* wrapped operation returns, or the watchdog goes back to its select.
CheckConnectionLost(t) ==
    /\ Running
    /\ UNCHANGED dialer
    /\ th[t].pc = "ccl"
    /\ reconnectLock = NoThread
    /\ alive' = AliveAfterCheck(alive, lastError)
    /\ dials' = IF alive /\ ~alive' THEN 0 ELSE dials
    /\ IF th[t].op = "MonitorConnection"
       THEN /\ th' = [th EXCEPT ![t] = [IdleThread EXCEPT !.pc = "select"]]
            /\ UNCHANGED subscribed
       ELSE IF th[t].res = Panic
       THEN /\ th' = [th EXCEPT ![t].pc = "panicked"]
            /\ UNCHANGED subscribed
       ELSE LET r == WrapResult(th[t].op, th[t].res)
            IN /\ th' = [th EXCEPT ![t] = Returned(th[t], r)]
               /\ subscribed' = SubscribedAfter(th[t], r)
    /\ UNCHANGED <<Connect, callbacks, reconnectLock, stop, lastError,
                   dialed, invoked, batch, appended, ops, ticks, closeSignals>>

----------------------------------------------------------------------------
(* Close *)

\* A caller calls Close.
StartClose(t) ==
    /\ Running
    /\ UNCHANGED dialer
    /\ th[t].pc = "idle"
    /\ ops + ticks < MaxCalls
    /\ th' = [th EXCEPT ![t] = [IdleThread EXCEPT !.pc = "close", !.op = "Close"]]
    /\ ops' = ops + 1
    /\ UNCHANGED <<Connect, alive, callbacks, reconnectLock, stop, lastError,
                   dialed, dials, invoked, batch, appended, subscribed,
                   ticks, closeSignals>>

\* Close: `close(l.stop)`, then `return l.Close()`, the same method again.
\* Closing the nil channel and closing a closed channel panic.
Close(t) ==
    /\ Running
    /\ UNCHANGED dialer
    /\ th[t].pc = "close"
    /\ IF stop = "open"
       THEN /\ stop' = "closed"
            /\ closeSignals' = closeSignals + 1
            /\ UNCHANGED th
       ELSE /\ th' = [th EXCEPT ![t].pc = "panicked"]
            /\ UNCHANGED <<stop, closeSignals>>
    /\ UNCHANGED <<Connect, alive, callbacks, reconnectLock, lastError,
                   dialed, dials, invoked, batch, appended, subscribed,
                   ops, ticks>>

----------------------------------------------------------------------------
(* The watchdog *)

\* MonitorConnection: `go func() { for { select { ... } } }()`
MonitorConnection ==
    /\ Running
    /\ UNCHANGED dialer
    /\ th[Watchdog].pc = "off"
    /\ th' = [th EXCEPT ![Watchdog].pc = "select"]
    /\ UNCHANGED <<Connect, alive, callbacks, reconnectLock, stop, lastError,
                   dialed, dials, invoked, batch, appended, subscribed,
                   ops, ticks, closeSignals>>

\* The select of the watchdog's loop: `<-l.stop` is ready only when the channel
\* is closed (a nil channel is never ready) and ends the goroutine;
\* `<-time.After(checkInterval)` starts a tick with l.reconnectIfNecessary().
WatchdogSelect ==
    /\ Running
    /\ UNCHANGED dialer
    /\ th[Watchdog].pc = "select"
    /\ \E ready \in (IF stop = "closed" THEN {"stop", "timer"} ELSE {"timer"}) :
        IF ready = "stop"
        THEN /\ th' = [th EXCEPT ![Watchdog].pc = "exited"]
             /\ UNCHANGED ticks
        ELSE /\ ops + ticks < MaxCalls
             /\ ticks' = ticks + 1
             /\ th' = [th EXCEPT ![Watchdog] =
                         [IdleThread EXCEPT !.pc = "rin_enter",
                                            !.op = "MonitorConnection"]]
    /\ UNCHANGED <<Connect, alive, callbacks, reconnectLock, stop, lastError,
                   dialed, dials, invoked, batch, appended, subscribed,
                   ops, closeSignals>>

\* What l.Connect.IsAlive() returned: (alive bool, err error)
IsAliveAnswer(isAlive, hasErr) ==
    [kind |-> "isalive", val |-> <<IF isAlive THEN 1 ELSE 0, IF hasErr THEN 1 ELSE 0>>]

\* A faulty variant of AfterIsAlive: a session that is not alive is always
\* handed to checkConnectionLost, also when IsAlive returned no error.
AfterIsAlive_AlwaysClassify(isAlive, hasErr) ==
    IF isAlive THEN "select" ELSE "ccl"

\* The branches after IsAlive: `if alive { continue }`, `if err == nil { Lock;
\* l.alive = false; Unlock } else { l.checkConnectionLost() }`
AfterIsAlive(isAlive, hasErr) ==
    IF isAlive THEN "select"
    ELSE IF ~hasErr THEN "setdead" ELSE "ccl"

\* `alive, err := l.Connect.IsAlive()`, made without the lock, and the branch on
\* its answer.  A nil l.Connect makes the call panic.  The goroutine keeps the
\* answer (res) and the session that gave it (tmp) for the branch it takes.
WatchdogIsAlive(C) ==
    /\ Running
    /\ UNCHANGED dialer
    /\ th[Watchdog].pc = "isalive"
    /\ IF Connect = NoSession
       THEN /\ th' = [th EXCEPT ![Watchdog].pc = "panicked"]
            /\ UNCHANGED lastError
       ELSE \E isAlive \in BOOLEAN, hasErr \in BOOLEAN, code \in C :
            /\ lastError' = code
            /\ th' = [th EXCEPT ![Watchdog] =
                        IF AfterIsAlive(isAlive, hasErr) = "select"
                        THEN [IdleThread EXCEPT !.pc = "select"]
                        ELSE [th[Watchdog] EXCEPT
                                 !.pc = AfterIsAlive(isAlive, hasErr),
                                 !.tmp = <<Connect>>,
                                 !.res = IsAliveAnswer(isAlive, hasErr)]]
    /\ UNCHANGED <<Connect, alive, callbacks, reconnectLock, stop,
                   dialed, dials, invoked, batch, appended, subscribed,
                   ops, ticks, closeSignals>>

\* `if err == nil`: Lock, l.alive = false, Unlock.
WatchdogSetDead ==
    /\ Running
    /\ UNCHANGED dialer
    /\ th[Watchdog].pc = "setdead"
    /\ reconnectLock = NoThread
    /\ alive' = FALSE
    /\ dials' = IF alive THEN 0 ELSE dials
    /\ th' = [th EXCEPT ![Watchdog] = [IdleThread EXCEPT !.pc = "select"]]
    /\ UNCHANGED <<Connect, callbacks, reconnectLock, stop, lastError,
                   dialed, invoked, batch, appended, subscribed, ops, ticks,
                   closeSignals>>

Next ==
    \/ \E t \in Callers : StartOp(t)
    \/ \E t \in Callers : StartClose(t)
    \/ \E t \in Callers : Close(t)
    \/ \E t \in Threads : ReconnectIfNecessary(t, SomeCodes)
    \/ \E t \in Threads : RinInvoke(t)
    \/ \E t \in Threads : RinInvokeSync(t)
    \/ \E t \in Callers : AppendRead(t)
    \/ \E t \in Callers : AppendWrite(t)
    \/ \E t \in Callers : Call(t, SomeCodes)
    \/ \E t \in Threads : CheckConnectionLost(t)
    \/ MonitorConnection
    \/ WatchdogSelect
    \/ WatchdogIsAlive(SomeCodes)
    \/ WatchdogSetDead

Spec == Init /\ [][Next]_vars

\* One caller alone, no watchdog, the library reporting any code.
NextSequential ==
    \/ StartOp(1)
    \/ ReconnectIfNecessary(1, Codes)
    \/ RinInvoke(1)
    \/ RinInvokeSync(1)
    \/ AppendRead(1)
    \/ AppendWrite(1)
    \/ Call(1, Codes)
    \/ CheckConnectionLost(1)

SpecSequential == Init /\ [][NextSequential]_vars

\* The watchdog alone: no caller invokes any operation.  The goroutine is
\* scheduled fairly: a step it can take (the timer of its select fires, a lock
\* that is free is taken, a library call returns) is eventually taken.
NextWatchdog ==
    \/ MonitorConnection
    \/ WatchdogSelect
    \/ ReconnectIfNecessary(Watchdog, Codes)
    \/ WatchdogIsAlive(Codes)
    \/ WatchdogSetDead
    \/ CheckConnectionLost(Watchdog)

SpecWatchdog == Init /\ [][NextWatchdog]_vars /\ WF_vars(NextWatchdog)

----------------------------------------------------------------------------
(* NewConnection *)

\* Before NewConnection there is no handle.  The daemon refuses the first
\* `fails` dial attempts and accepts the next one.
InitDialer ==
    /\ Connect = NoSession
    /\ alive = FALSE
    /\ callbacks = <<>>
    /\ reconnectLock = NoThread
    /\ stop = "nil"
    /\ lastError = "ERR_OK"
    /\ th = [t \in Threads |-> IF t = Watchdog THEN [IdleThread EXCEPT !.pc = "off"]
                                               ELSE IdleThread]
    /\ dialed = 0
    /\ dials = 0
    /\ invoked = [c \in Callbacks |-> 0]
    /\ batch = <<>>
    /\ appended = {}
    /\ subscribed = {}
    /\ ops = 0
    /\ ticks = 0
    /\ closeSignals = 0
    /\ \E n \in 0..MaxFails :
          dialer = [pc |-> "poll", fails |-> n, now |-> 0, attempts |-> 0,
                    virConn |-> NoSession, dialErrs |-> <<>>, pollErr |-> "nil",
                    ret |-> [handle |-> FALSE, err |-> <<>>]]

\* One round of the poll: the condition function dials once, and PollImmediate
\* acts on what the condition returns.
PollCondition ==
    /\ dialer.pc = "poll"
    /\ LET dialOk == dialer.attempts + 1 > dialer.fails
           c == Condition(dialOk)
           p == PollImmediate(c, dialer.now, ConnectionInterval, ConnectionTimeout)
       IN \E code \in (IF dialOk THEN {"ERR_OK"} ELSE Codes \ {"ERR_OK"}) :
            /\ lastError' = code
            /\ dialed' = IF dialOk THEN dialed + 1 ELSE dialed
            /\ dialer' = [dialer EXCEPT
                            !.pc = p.pc, !.now = p.now, !.pollErr = p.pollErr,
                            !.attempts = @ + 1,
                            !.virConn = IF dialOk THEN dialed + 1 ELSE NoSession,
                            !.dialErrs = IF dialOk THEN @ ELSE Append(@, code)]
    /\ UNCHANGED <<Connect, alive, callbacks, reconnectLock, stop, th,
                   dials, invoked, batch, appended, subscribed, ops, ticks,
                   closeSignals>>

\* NewConnection after the poll: `if err != nil { return nil, fmt.Errorf(...) }`,
\* else the LibvirtConnection literal is returned.
NewConnectionReturn ==
    /\ dialer.pc = "polled"
    /\ IF dialer.pollErr # "nil"
       THEN /\ dialer' = [dialer EXCEPT
                            !.pc = "returned",
                            !.ret = [handle |-> FALSE,
                                     err |-> ConnectError(dialer.pollErr)]]
            /\ UNCHANGED <<Connect, alive, callbacks, reconnectLock, stop>>
       ELSE /\ dialer' = [dialer EXCEPT
                            !.pc = "returned",
                            !.ret = [handle |-> TRUE, err |-> <<>>]]
            /\ Connect' = dialer.virConn
            /\ alive' = TRUE
            /\ callbacks' = <<>>
            /\ reconnectLock' = NoThread
            /\ stop' = "nil"
    /\ UNCHANGED <<lastError, th, dialed, dials, invoked, batch, appended,
                   subscribed, ops, ticks, closeSignals>>

NextDialer ==
    \/ PollCondition
    \/ NewConnectionReturn

SpecDialer == InitDialer /\ [][NextDialer]_vars

----------------------------------------------------------------------------
(* Properties *)

\* In the properties, a step with dials' = dials + 1 is a step that makes a
\* dial attempt (the steps that clear alive reset dials to 0), it failed when
\* dialed' = dialed, and th'[t] # th[t] says that goroutine t takes the step.

\* C1 (as claimed): for callers that call reconnectIfNecessary while alive is
\* false, exactly one dial is performed for that disconnect (and all callers
\* share its outcome): never a second dial attempt in one disconnect.
C1_OneDialPerDisconnect == dials <= 1

\* C1 (amended): a dial is made only inside reconnectIfNecessary's critical
\* section (no other goroutine holds the lock) and only while alive is false;
\* a dial that succeeds sets alive in the same critical section, so at most one
\* dial succeeds per disconnect; a dial that fails leaves alive false, and the
\* next caller to take the lock dials again.
C1_DialsSerializedOneSuccess ==
    [][dials' = dials + 1
          => /\ ~alive
             /\ reconnectLock = NoThread
             /\ (dialed' # dialed => alive')
             /\ (dialed' = dialed => ~alive' /\ reconnectLock' = NoThread)]_vars

\* C1 witness: a disconnect in which a first dial failed and a second dial, by
\* a later call, succeeded.
C1_Witness == dials = 2 /\ alive /\ Connect # NoSession

\* C2: every callback in the registry at a successful reconnect is invoked
\* exactly once in that replay; a callback is in the registry only if it was
\* registered (appended) after its last notification, so the registry holds
\* none of the replayed callbacks until they are re-registered.
C2_ReplayedOnceThenAbsent ==
    /\ \A cb \in Callbacks : invoked[cb] <= 1
    /\ \A cb \in Range(callbacks) : cb \in appended
    /\ (\A t \in Threads : th[t].pc # "rin_replay" /\ th[t].stack = <<>>)
          => \A cb \in Range(batch) : invoked[cb] = 1

\* C3: checkConnectionLost sets alive to false exactly when the recorded error
\* code is one of the seven connection-fatal codes; otherwise (no error, any
\* other code) alive keeps its value.
C3_AliveClearedIffFatalCode ==
    [][\A t \in Threads :
          (th[t].pc = "ccl" /\ th'[t] # th[t])
              => alive' = (IF lastError \in {"ERR_INTERNAL_ERROR", "ERR_INVALID_CONN",
                                           "ERR_AUTH_CANCELLED", "ERR_NO_MEMORY",
                                           "ERR_AUTH_FAILED", "ERR_SYSTEM_ERROR",
                                           "ERR_RPC"}
                           THEN FALSE ELSE alive)]_vars

\* C3 witness: checkConnectionLost has run with a fatal code recorded and alive
\* is false (with one caller and no watchdog nothing else clears alive).
C3_Witness ==
    /\ ~alive
    /\ lastError = "ERR_AUTH_CANCELLED"
    /\ th[1].pc = "idle"
    /\ th[1].ret = Ok(<<1>>)

\* C4: a wrapped operation whose reconnectIfNecessary succeeded performs the
\* library call, then checkConnectionLost, and returns the library call's own
\* result or error unchanged, whatever checkConnectionLost decides.
C4_ResultPassedThrough ==
    [][\A t \in Callers :
          (th[t].pc = "ccl" /\ th[t].stack = <<>> /\ th'[t] # th[t])
              => th'[t].pc = "idle" /\ th'[t].ret = th[t].res]_vars

\* C5: while a callback of the replay runs, the goroutine that runs it does not
\* hold reconnectLock, so a callback that re-registers itself synchronously
\* gets the lock (no goroutine waits for a lock it holds itself).
C5_NoLockHeldInCallback ==
    \A t \in Threads : th[t].stack # <<>> => reconnectLock # t

\* C6: a goroutine that is about to read or write l.Connect, l.alive or
\* l.callbacks holds reconnectLock.  (The accesses inside a critical section
\* are single steps; the positions below are those before an access made
\* outside any critical section: the read and the write of append, the read of
\* l.Connect for the library call, the read of l.Connect for IsAlive.)
C6_SharedStateUnderLock ==
    \A t \in Threads :
        th[t].pc \in {"append_read", "append_write", "call", "isalive"}
            => reconnectLock = t

\* C7: a callback is never replayed twice in one reconnect, and a registered
\* callback is never lost: from its append until its notification it is in the
\* registry or in the batch of a replay in progress.
C7_NoCallbackLostOrReplayedTwice ==
    /\ \A cb \in Callbacks : invoked[cb] <= 1
    /\ \A cb \in appended :
          \/ cb \in Range(callbacks)
          \/ \E t \in Threads :
                \/ cb \in Range(th[t].cbs)
                \/ \E i \in 1..Len(th[t].stack) : cb \in Range(th[t].stack[i].cbs)

\* C8: when the single dial of reconnectIfNecessary fails, alive stays false,
\* the registry is unchanged, no callback is invoked and the lock is released;
\* a wrapped operation returns the dial's error without making its library
\* call (the watchdog goes on with its tick); the goroutine dials no more in
\* this call.
C8_FailedDialReturnsError ==
    [][(dials' = dials + 1 /\ dialed' = dialed) =>
          /\ ~alive /\ ~alive'
          /\ callbacks' = callbacks
          /\ invoked' = invoked
          /\ reconnectLock' = NoThread
          /\ \A t \in Threads :
                th'[t] # th[t] => IF th[t].op = "MonitorConnection"
                            THEN th'[t].pc = "isalive"
                            ELSE /\ th[t].res = NoResult
                                 /\ th'[t].pc = "idle"
                                 /\ th'[t].ret = DialError]_vars

\* C8 witness: a caller's operation has returned the error of a failed dial;
\* alive is false.
C8_Witness ==
    \E t \in Callers : th[t].pc = "idle" /\ th[t].ret = DialError /\ ~alive

\* C9: reconnectIfNecessary called while alive is true dials nothing, leaves
\* l.Connect, l.alive and the registry unchanged, invokes no callback and
\* returns nil (the caller goes on).
C9_NoOpWhenAlive ==
    [][\A t \in Threads :
          (th[t].pc = "rin_enter" /\ th'[t] # th[t] /\ alive)
              => /\ UNCHANGED <<Connect, alive, callbacks, lastError, dialed,
                               dials, invoked, reconnectLock>>
                 /\ th'[t].pc \in {"call", "append_read", "isalive"}
                 /\ th'[t].ret = NoResult]_vars

\* C9 witness: a caller is past a reconnectIfNecessary that found alive true:
\* no dial was ever made and it is about to make its library call.
C9_Witness ==
    \E t \in Callers : th[t].pc = "call" /\ alive /\ dialed = 1 /\ dials = 0

\* C10: Close signals the cancellation exactly once and returns: a Close that
\* is over has closed l.stop once and has returned to its caller.
C10_CloseSignalsOnceAndReturns ==
    \A t \in Callers :
        (th[t].op = "Close" /\ th[t].pc # "close")
            => closeSignals = 1 /\ stop = "closed" /\ th[t].pc = "idle"

C12_WatchdogTickBranches ==
    [][/\ (th[Watchdog].pc = "isalive" /\ th'[Watchdog] # th[Watchdog]
                /\ Connect # NoSession)
            => /\ UNCHANGED <<Connect, alive, callbacks, reconnectLock>>
               /\ \/ th'[Watchdog].pc = "select"
                  \/ th'[Watchdog].pc = "setdead" /\ th'[Watchdog].res.val = <<0, 0>>
                  \/ th'[Watchdog].pc = "ccl" /\ th'[Watchdog].res.val = <<0, 1>>
       /\ (th[Watchdog].pc = "setdead" /\ th'[Watchdog] # th[Watchdog])
            => /\ reconnectLock = NoThread /\ reconnectLock' = NoThread
               /\ alive' = FALSE
               /\ UNCHANGED <<Connect, callbacks, lastError>>
               /\ th'[Watchdog].pc = "select"
       /\ (th[Watchdog].pc = "ccl" /\ th'[Watchdog] # th[Watchdog])
            => /\ alive' = (IF lastError \in {"ERR_RPC", "ERR_INTERNAL_ERROR",
                                              "ERR_INVALID_CONN", "ERR_AUTH_CANCELLED",
                                              "ERR_NO_MEMORY", "ERR_AUTH_FAILED",
                                              "ERR_SYSTEM_ERROR"}
                            THEN FALSE ELSE alive)
               /\ UNCHANGED <<Connect, callbacks>>
               /\ th'[Watchdog].pc = "select"]_vars

\* C12 witness: the watchdog's first tick, with no caller at work and no error
\* recorded by the library, has cleared alive: the silent-disconnect branch.
C12_Witness ==
    /\ ticks = 1 /\ ops = 0
    /\ th[Watchdog].pc = "select"
    /\ ~alive
    /\ lastError = "ERR_OK"

\* C13: with the watchdog running alone and scheduled fairly, whenever alive
\* is false, alive eventually becomes true again unless a dial attempt fails
\* after that moment (n counts the dials that have failed: with the watchdog
\* alone l.Connect is nil exactly when one has) or the ticks of the model are
\* used up.
C13_WatchdogHeals ==
    \A n \in {0, 1} :
        (~alive /\ n = (IF Connect = NoSession THEN 1 ELSE 0))
            ~> (\/ alive
                \/ n < (IF Connect = NoSession THEN 1 ELSE 0)
                \/ ticks = MaxCalls)

\* C14: when NewConnection's timeout elapses without a successful dial, it
\* returns no handle and an error that wraps the last dial failure.
C14_TimeoutWrapsLastFailure ==
    (dialer.pc = "returned" /\ dialer.virConn = NoSession)
        => /\ ~dialer.ret.handle
           /\ Connect = NoSession
           /\ dialer.dialErrs # <<>>
           /\ dialer.ret.err = <<"cannot connect to libvirt daemon",
                                 dialer.dialErrs[Len(dialer.dialErrs)]>>

\* C15: NewConnection, with the daemon refusing N dial attempts and accepting
\* the next, attempts spaced by ConnectionInterval: if N * ConnectionInterval <
\* ConnectionTimeout it returns after exactly N + 1 attempts with a handle
\* whose alive is true and whose registry is empty (it returned on none of the
\* N failures); otherwise it returns no handle and an error.
C15_RetryUntilTimeout ==
    dialer.pc = "returned"
        => IF dialer.fails * ConnectionInterval < ConnectionTimeout
           THEN /\ dialer.ret = [handle |-> TRUE, err |-> <<>>]
                /\ dialer.attempts = dialer.fails + 1
                /\ Len(dialer.dialErrs) = dialer.fails
                /\ alive /\ callbacks = <<>> /\ Connect # NoSession
           ELSE /\ ~dialer.ret.handle /\ dialer.ret.err # <<>>
                /\ Connect = NoSession /\ ~alive

\* C15 witness: NewConnection has returned a handle after one failed attempt
\* and a second, successful one.
C15_Witness ==
    /\ dialer.pc = "returned"
    /\ dialer.fails = 1 /\ dialer.attempts = 2 /\ dialer.now = 10
    /\ dialer.ret.handle /\ alive

\* C16: l.Connect always refers to a session that a successful dial returned
\* (a failed dial leaves the previous session in place), so no library call and
\* no liveness query of the watchdog is made on a nil session.
C16_SessionNeverNil ==
    /\ Connect \in 1..dialed
    /\ \A t \in Threads :
          th[t].pc \in {"call", "isalive"} => Connect # NoSession

\* C17: alive is cleared only on evidence about the session that is current
\* at that moment.  The error that checkConnectionLost reads is the one left by
\* the last call into the library, a call on the current session or the dial
\* that made it; the not-alive report on which the watchdog clears alive must
\* come from the session that l.Connect refers to when alive is cleared.
C17_AliveClearedOnCurrentEvidence ==
    [][(/\ th[Watchdog].pc = "setdead"
        /\ th'[Watchdog] # th[Watchdog]
        /\ alive /\ ~alive')
           => th[Watchdog].tmp = <<Connect>>]_vars

\* C18: a RegisterGuestEventLifecycle call that returns an error (of the dial
\* or of DomainEventLifecycleRegister) leaves the registry as it was before the
\* call: with one caller, the step that returns the error changes the registry
\* no more, and the callback of the call, which was not registered when the
\* call began, is not in the registry after it (so no later reconnect notifies
\* it).
C18_FailedRegisterLeavesRegistry ==
    [][(/\ th[1].op = "RegisterGuestEventLifecycle"
        /\ th[1].stack = <<>>
        /\ th'[1].pc = "idle"
        /\ th'[1].ret.kind \in {"err", "dialerr"})
           => /\ callbacks' = callbacks
              /\ th[1].arg \notin Range(callbacks')]_vars

\* C19: alive changes from false to true only in reconnectIfNecessary, in the
\* critical section in which l.Connect is replaced by a newly dialed session
\* and the registry is drained; checkConnectionLost and the watchdog's
\* silent-disconnect branch never set alive to true and never change l.Connect
\* or the registry.
C19_AliveSetOnlyByReconnect ==
    [][/\ (~alive /\ alive')
            => /\ \E t \in Threads : th[t].pc = "rin_enter" /\ th'[t] # th[t]
               /\ reconnectLock = NoThread
               /\ dialed' = dialed + 1
               /\ Connect' = dialed' /\ Connect' # Connect
               /\ callbacks' = <<>>
       /\ \A t \in Threads :
            (th[t].pc \in {"ccl", "setdead"} /\ th'[t] # th[t])
                => /\ (alive' => alive)
                   /\ UNCHANGED <<Connect, callbacks>>]_vars

\* C19 witness: a reconnect has set alive again: the second session is in
\* place and the registry, which held a callback, has been drained.
C19_Witness ==
    /\ alive /\ dialed = 2 /\ Connect = 2
    /\ batch # <<>> /\ callbacks = <<>>


=============================================================================
